---- MODULE Spec2Model ----
(***************************************************************************)
(* A model of the Keyboard repository: the synthesis engine of             *)
(* wavemaker.py (WaveGenerator, AudioEffects, SoundPresets, SoundPlayer)   *)
(* and the session of keyboard.py (PianoKeyboard).                         *)
(*                                                                         *)
(* Numbers.  Durations are Python floats in seconds; the model holds them  *)
(* in units of 10 microseconds.  Effect parameters (attack, decay, sustain, release,   *)
(* rate, depth, drive, harmonic weights, amplitudes) are held in           *)
(* thousandths.  Gains of a mix are held in tenths.                        *)
(*                                                                         *)
(* Buffers.  A numpy array is held as [len, parts]: its length and the     *)
(* ordered list of the voices summed in it.  Every numpy operation of the  *)
(* source is elementwise (or, for reverb, a fixed combination of shifted   *)
(* copies), so sample j of an array is determined by j and by the          *)
(* formula that produced the array; a part records that formula: the       *)
(* oscillator, the note's frequency, the amplitude and the effects in the  *)
(* order they were applied, and the gain the voice has in the sum.         *)
(***************************************************************************)
EXTENDS Integers, Sequences, FiniteSets, TLC

\* ------------------------------------------------------------------------
\* Bounds of the model
\* ------------------------------------------------------------------------

\* the number of play requests of a behaviour of Spec
MaxReq == 2

\* ------------------------------------------------------------------------
\* Numbers
\* ------------------------------------------------------------------------

SAMPLE_RATE == 44100

\* a second, in the unit the model holds durations in
Second == 100 * 1000

\* Python's int() on a float: truncation toward zero (a \div b floors)
IntTrunc(a, b) == IF a >= 0 THEN a \div b ELSE -((-a) \div b)

Min(a, b) == IF a <= b THEN a ELSE b

Max(a, b) == IF a >= b THEN a ELSE b

\* ------------------------------------------------------------------------
\* Results of a call: a value, or the exception it raised
\* ------------------------------------------------------------------------

\* the value None (play_chord's combined_wave before the first note)
NoneBuf == [len |-> -1, parts |-> <<>>]

Ok(b) == [exc |-> "none", buf |-> b]

Raise(e) == [exc |-> e, buf |-> NoneBuf]

\* A preset is a sequence of statements, each taking the value of the one
\* before it; an exception raised by one of them passes through those after
\* it, which models their not being run.

\* ------------------------------------------------------------------------
\* notes.py (not among the sources): the note registry
\* ------------------------------------------------------------------------

NoteNames == {"C", "C#", "D", "D#", "Eb", "E", "F", "F#", "G", "G#", "A", "A#", "B"}

\* which notes the registry supports: notes.py is fixed, and not known
VARIABLE registry

\* The registries the model knows: one supports every name in the octaves
\* 0..8, one the 88 keys of a piano (A0 to C8).
Registries == {"octaves", "piano88"}

is_valid_note(note, octave) ==
    /\ note \in NoteNames
    /\ octave \in 0..8
    /\ registry = "piano88" =>
          \/ octave \in 1..7
          \/ octave = 0 /\ note \in {"A", "A#", "B"}
          \/ octave = 8 /\ note = "C"

\* the frequency of a note is held as the note itself; a note the registry
\* does not know has no frequency and the lookup fails
get_frequency(note, octave) ==
    IF is_valid_note(note, octave)
    THEN [exc |-> "none", freq |-> <<note, octave>>]
    ELSE [exc |-> "InvalidNote", freq |-> <<>>]

\* ------------------------------------------------------------------------
\* WaveGenerator
\* ------------------------------------------------------------------------

\* int(SAMPLE_RATE * duration); the quotient SAMPLE_RATE * duration / Second
\* is taken with both sides reduced by their common factor 100, which keeps
\* the product within 32-bit integers
NumSamples(duration) == IntTrunc((SAMPLE_RATE \div 100) * duration, Second \div 100)

\* np.linspace(0, duration, num, False): ValueError when num < 0
_generate_time_array(duration) ==
    IF NumSamples(duration) < 0
    THEN [exc |-> "ValueError", len |-> 0]
    ELSE [exc |-> "none", len |-> NumSamples(duration)]

WaveGenerator(note, octave, amplitude) ==
    LET f == get_frequency(note, octave)
    IN  [exc |-> f.exc, frequency |-> f.freq, amplitude |-> amplitude]

\* a one-voice array: len samples of oscillator osc with the given weights
Voice(gen, osc, weights, len) ==
    [len |-> len,
     parts |-> << [gain |-> 10, osc |-> osc, weights |-> weights,
                   frequency |-> gen.frequency, amplitude |-> gen.amplitude,
                   fx |-> <<>>] >>]

Oscillate(gen, osc, weights, duration) ==
    LET t == _generate_time_array(duration)
    IN  IF gen.exc # "none" THEN Raise(gen.exc)
        ELSE IF t.exc # "none" THEN Raise(t.exc)
        ELSE Ok(Voice(gen, osc, weights, t.len))

sine_wave(gen, duration) == Oscillate(gen, "sine", <<>>, duration)

square_wave(gen, duration) == Oscillate(gen, "square", <<>>, duration)

sawtooth_wave(gen, duration) == Oscillate(gen, "sawtooth", <<>>, duration)

triangle_wave(gen, duration) == Oscillate(gen, "triangle", <<>>, duration)

harmonic_wave(gen, duration, harmonics) == Oscillate(gen, "harmonic", harmonics, duration)

WaveKinds == {"sine", "square", "sawtooth", "triangle", "harmonic"}

\* the default harmonics of harmonic_wave
DefaultHarmonics == <<1000, 500, 250, 125>>

GenerateKind(gen, kind, duration) ==
    CASE kind = "sine" -> sine_wave(gen, duration)
      [] kind = "square" -> square_wave(gen, duration)
      [] kind = "sawtooth" -> sawtooth_wave(gen, duration)
      [] kind = "triangle" -> triangle_wave(gen, duration)
      [] kind = "harmonic" -> harmonic_wave(gen, duration, DefaultHarmonics)

\* ------------------------------------------------------------------------
\* AudioEffects
\* ------------------------------------------------------------------------

\* wave * modulation, elementwise: every voice of the array gets the effect
Tag(buf, name, params) ==
    [len |-> buf.len,
     parts |-> [i \in 1..Len(buf.parts) |->
                  [buf.parts[i] EXCEPT !.fx = Append(@, <<name, params>>)]]]

\* an effect that cannot fail
Effect(wave, name, params) ==
    IF wave.exc # "none" THEN wave ELSE Ok(Tag(wave.buf, name, params))

\* int(seconds * SAMPLE_RATE), seconds in thousandths
SegmentSamples(ms) == IntTrunc(ms * SAMPLE_RATE, 1000)

\* envelope[lo:hi] = np.linspace(.., n): the slice is clipped to the array,
\* and numpy refuses a right-hand side of another length (a single value is
\* broadcast)
SliceLen(total, lo, hi) == Max(0, Min(hi, total) - Min(lo, total))

AssignFits(sliceLen, n) == n = sliceLen \/ n = 1

\* the three ramp assignments of lines 77-88 all take their right-hand side
EnvelopeFits(total_samples, attack_samples, decay_samples, release_samples) ==
    LET attackOk  == attack_samples > 0 =>
                       AssignFits(SliceLen(total_samples, 0, attack_samples), attack_samples)
        decayOk   == decay_samples > 0 =>
                       AssignFits(SliceLen(total_samples, attack_samples,
                                           attack_samples + decay_samples), decay_samples)
        releaseOk == release_samples > 0 =>
                       AssignFits(Min(release_samples, total_samples), release_samples)
    IN  attackOk /\ decayOk /\ releaseOk

apply_envelope(wave, attack, decay, sustain, release) ==
    LET total_samples   == wave.buf.len
        attack_samples  == SegmentSamples(attack)
        decay_samples   == SegmentSamples(decay)
        release_samples == SegmentSamples(release)
    IN  IF wave.exc # "none" THEN wave
        ELSE IF EnvelopeFits(total_samples, attack_samples, decay_samples, release_samples)
        THEN Ok(Tag(wave.buf, "envelope", <<attack, decay, sustain, release>>))
        ELSE Raise("ValueError")

\* ------------------------------------------------------------------------
\* AudioEffects on an array held sample by sample
\* ------------------------------------------------------------------------
\* Times are given here in microseconds, which lets a segment or a delay be
\* a few samples long.  Sample j of a Python array is element j + 1 of the
\* sequence that holds it.  A multiplier of the envelope is held as the
\* fraction <<num, den>> of thousandths: num / den / 1000.

\* int(x * SAMPLE_RATE), int(SAMPLE_RATE * delay_ms / 1000)
SamplesOfMicros(us) == IntTrunc(SAMPLE_RATE * us, 1000 * 1000)

\* a ramp that stops one step short of its end
LinspaceOpenEnd(start, stop, num, i) == <<start * num + i * (stop - start), num>>

\* np.linspace(start, stop, num)[i]: the end point is included, and a ramp of
\* one sample is its start
Linspace(start, stop, num, i) ==
    IF num = 1 THEN <<start, 1>>
    ELSE <<start * (num - 1) + i * (stop - start), num - 1>>

\* envelope[lo:hi] = np.linspace(start, stop, num) where it fits, a no-op on
\* an empty slice; each sample notes the segment that wrote it
AssignRamp(envelope, lo, hi, seg, start, stop, num) ==
    LET total == Len(envelope)
        from  == Min(lo, total)
        to    == Min(hi, total)
    IN  [j \in 1..total |->
           IF from <= j - 1 /\ j - 1 < to
           THEN [val |-> Linspace(start, stop, num, j - 1 - from),
                 by |-> Append(envelope[j].by, seg)]
           ELSE envelope[j]]

\* envelope[lo:hi] = value
AssignValue(envelope, lo, hi, seg, value) ==
    LET total == Len(envelope)
    IN  [j \in 1..total |->
           IF Min(lo, total) <= j - 1 /\ j - 1 < Min(hi, total)
           THEN [val |-> <<value, 1>>, by |-> Append(envelope[j].by, seg)]
           ELSE envelope[j]]

\* lines 68-89 of apply_envelope: the envelope of total_samples samples
EnvelopeArray(total_samples, attack_samples, decay_samples, sustain, release_samples) ==
    LET sustain_samples == total_samples - attack_samples - decay_samples - release_samples
        ones == [j \in 1..total_samples |-> [val |-> <<1000, 1>>, by |-> <<>>]]
        e1 == IF attack_samples > 0
              THEN AssignRamp(ones, 0, attack_samples, "attack", 0, 1000, attack_samples)
              ELSE ones
        e2 == IF decay_samples > 0
              THEN AssignRamp(e1, attack_samples, attack_samples + decay_samples, "decay",
                              1000, sustain, decay_samples)
              ELSE e1
        e3 == IF sustain_samples > 0
              THEN AssignValue(e2, attack_samples + decay_samples,
                               attack_samples + decay_samples + sustain_samples,
                               "sustain", sustain)
              ELSE e2
        e4 == IF release_samples > 0
              THEN AssignRamp(e3, Max(total_samples - release_samples, 0), total_samples,
                              "release", sustain, 0, release_samples)
              ELSE e3
    IN  IF EnvelopeFits(total_samples, attack_samples, decay_samples, release_samples)
        THEN [exc |-> "none", out |-> e4]
        ELSE [exc |-> "ValueError", out |-> <<>>]

\* the taps of apply_reverb
Taps == 0..2

\* reverb_wave[delay:] += amplitude * wave[:-delay] raises when the two
\* sides differ in length: wave[:-0] is empty
TapFits(total_samples, delay) ==
    delay < total_samples => (delay > 0 \/ total_samples = 0)

\* lines 96-107 of apply_reverb on wave = <<x[0], ..., x[total_samples-1]>>:
\* sample j of the result is x[dry] plus, for each of its echoes in the order
\* they were added, reverb_amount * 0.6^tap * x[src]
ReverbArray(total_samples, delay_samples) ==
    LET Echoes(j) ==
            {i \in Taps : /\ delay_samples * (i + 1) < total_samples
                          /\ delay_samples * (i + 1) <= j}
        EchoSeq(j) ==
            [n \in 1..Cardinality(Echoes(j)) |->
                LET i == CHOOSE t \in Echoes(j) :
                            Cardinality({u \in Echoes(j) : u < t}) = n - 1
                IN  [tap |-> i, src |-> j - delay_samples * (i + 1)]]
    IN  IF \A i \in Taps : TapFits(total_samples, delay_samples * (i + 1))
        THEN [exc |-> "none",
              out |-> [k \in 1..total_samples |-> [dry |-> k - 1, echoes |-> EchoSeq(k - 1)]]]
        ELSE [exc |-> "ValueError", out |-> <<>>]

apply_reverb(wave, reverb_amount, delay_ms) ==
    Effect(wave, "reverb", <<reverb_amount, delay_ms>>)

apply_vibrato(wave, rate, depth) == Effect(wave, "vibrato", <<rate, depth>>)

apply_tremolo(wave, rate, depth) == Effect(wave, "tremolo", <<rate, depth>>)

apply_distortion(wave, drive) == Effect(wave, "distortion", <<drive>>)

\* wave * np.exp(-k * t / duration), as guitar and bell do inline
ExpDecay(wave, k) == Effect(wave, "expdecay", <<k>>)

\* the default delay_ms of apply_reverb
DefaultDelayMs == 100

\* ------------------------------------------------------------------------
\* SoundPresets
\* ------------------------------------------------------------------------

piano(note, octave, duration) ==
    LET gen == WaveGenerator(note, octave, 400)
        w1  == harmonic_wave(gen, duration, <<1000, 700, 300, 100>>)
        w2  == apply_tremolo(w1, 4000, 150)
    IN  apply_envelope(w2, 10, 100, 700, 300)

organ(note, octave, duration) ==
    LET gen == WaveGenerator(note, octave, 300)
        w1  == harmonic_wave(gen, duration, <<1000, 800, 600, 400, 300, 200>>)
        w2  == apply_reverb(w1, 400, DefaultDelayMs)
    IN  apply_envelope(w2, 200, 100, 800, 500)

guitar(note, octave, duration) ==
    LET gen == WaveGenerator(note, octave, 400)
        w1  == harmonic_wave(gen, duration, <<1000, 600, 300, 100>>)
        w2  == ExpDecay(w1, 2000)
    IN  apply_reverb(w2, 200, DefaultDelayMs)

synth_lead(note, octave, duration) ==
    LET gen == WaveGenerator(note, octave, 300)
        w1  == sawtooth_wave(gen, duration)
        w2  == apply_vibrato(w1, 5000, 20)
        w3  == apply_envelope(w2, 50, 100, 600, 300)
    IN  apply_reverb(w3, 300, DefaultDelayMs)

bell(note, octave, duration) ==
    LET gen == WaveGenerator(note, octave, 400)
        w1  == Oscillate(gen, "partials", <<1000, 600, 400>>, duration)
        w2  == ExpDecay(w1, 800)
    IN  apply_reverb(w2, 500, DefaultDelayMs)

retro(note, octave, duration) ==
    LET gen == WaveGenerator(note, octave, 300)
        w1  == square_wave(gen, duration)
    IN  apply_envelope(w1, 10, 50, 600, 100)

pad(note, octave, duration) ==
    LET gen == WaveGenerator(note, octave, 200)
        w1  == harmonic_wave(gen, duration, <<1000, 600, 800, 400, 500>>)
        w2  == apply_vibrato(w1, 3000, 15)
        w3  == apply_reverb(w2, 600, DefaultDelayMs)
    IN  apply_envelope(w3, 800, 200, 700, 1000)

bass(note, octave, duration) ==
    LET gen == WaveGenerator(note, octave, 500)
        w1  == sawtooth_wave(gen, duration)
        w2  == apply_envelope(w1, 20, 100, 500, 200)
    IN  apply_distortion(w2, 1500)

sine(note, octave, duration) ==
    LET gen == WaveGenerator(note, octave, 300)
        w1  == sine_wave(gen, duration)
    IN  apply_envelope(w1, 50, 50, 800, 100)

\* the static methods of class SoundPresets
PresetMethods ==
    {"piano", "organ", "guitar", "synth_lead", "bell", "retro", "pad", "bass", "sine"}

\* attributes every class has that are not functions of (note, octave,
\* duration), such as the class docstring
OtherAttributes == {"__doc__"}

\* AVAILABLE_SOUNDS: key -> method of SoundPresets
AVAILABLE_SOUNDS ==
    [k \in {"piano", "organ", "guitar", "synth", "bell", "retro", "pad", "bass", "sine"}
       |-> IF k = "synth" THEN "synth_lead" ELSE k]

\* calling the attribute a lookup returned
CallSoundFunc(f, note, octave, duration) ==
    CASE f = "piano" -> piano(note, octave, duration)
      [] f = "organ" -> organ(note, octave, duration)
      [] f = "guitar" -> guitar(note, octave, duration)
      [] f = "synth_lead" -> synth_lead(note, octave, duration)
      [] f = "bell" -> bell(note, octave, duration)
      [] f = "retro" -> retro(note, octave, duration)
      [] f = "pad" -> pad(note, octave, duration)
      [] f = "bass" -> bass(note, octave, duration)
      [] f = "sine" -> sine(note, octave, duration)
      [] OTHER -> Raise("TypeError")

\* ------------------------------------------------------------------------
\* SoundPlayer: the pure parts
\* ------------------------------------------------------------------------

\* getattr(SoundPresets, sound_type, SoundPresets.piano)
LookupSoundFunc(sound_type) ==
    IF sound_type \in PresetMethods \cup OtherAttributes THEN sound_type ELSE "piano"

\* wave * 0.7
ChordGain == 7

Scale(wave) ==
    [len |-> wave.len,
     parts |-> [i \in 1..Len(wave.parts) |->
                  [wave.parts[i] EXCEPT !.gain = (@ * ChordGain) \div 10]]]

\* a loop body that overwrites the mix with the new voice
MixInOverwrite(combined_wave, wave) == Scale(wave)

\* one pass of play_chord's loop body after the voice is rendered
MixIn(combined_wave, wave) ==
    IF combined_wave = NoneBuf
    THEN Scale(wave)
    ELSE LET min_length == Min(combined_wave.len, wave.len)
         IN  [len |-> min_length, parts |-> combined_wave.parts \o Scale(wave).parts]

\* except Exception: every exception the model raises is a subclass of it
ExceptionKinds == {"ValueError", "TypeError", "InvalidNote", "PortAudioError"}

\* a handler that names one exception class only
CatchesValueErrorOnly(e) == e = "ValueError"

Catches(e) == e \in ExceptionKinds

\* ------------------------------------------------------------------------
\* PianoKeyboard: the tables of __init__
\* ------------------------------------------------------------------------

key_mapping ==
    [k \in {"z", "x", "c", "v", "b", "n", "m", ",", ".", "/",
            "s", "d", "g", "h", "j", "l", ";"} |->
        CASE k \in {"z", ","} -> "C"
          [] k \in {"x", "."} -> "D"
          [] k \in {"c", "/"} -> "E"
          [] k = "v" -> "F"
          [] k = "b" -> "G"
          [] k = "n" -> "A"
          [] k = "m" -> "B"
          [] k \in {"s", "l"} -> "C#"
          [] k \in {"d", ";"} -> "D#"
          [] k = "g" -> "F#"
          [] k = "h" -> "G#"
          [] k = "j" -> "A#"]

sound_keys ==
    [k \in {"1", "2", "3", "4", "5", "6", "7", "8", "9"} |->
        CASE k = "1" -> "piano"
          [] k = "2" -> "organ"
          [] k = "3" -> "guitar"
          [] k = "4" -> "synth"
          [] k = "5" -> "bell"
          [] k = "6" -> "retro"
          [] k = "7" -> "pad"
          [] k = "8" -> "bass"
          [] k = "9" -> "sine"]

chords ==
    [c \in {"major", "minor", "seventh", "sus4"} |->
        CASE c = "major" -> <<"C", "E", "G">>
          [] c = "minor" -> <<"C", "Eb", "G">>
          [] c = "seventh" -> <<"C", "E", "G", "B">>
          [] c = "sus4" -> <<"C", "F", "G">>]

\* list(self.chords.keys()): the insertion order of the dictionary
chord_list == <<"major", "minor", "seventh", "sus4">>

\* ------------------------------------------------------------------------
\* State
\* ------------------------------------------------------------------------

VARIABLES
    nreq,              \* the number of play requests issued so far
    call,              \* call[r]: the arguments of request r and how it was issued
    pc,                \* pc[r]: where request r's SoundPlayer call stands
    idx,               \* idx[r]: the note play_chord's loop renders next
    combined,          \* combined[r]: wave of play_note, combined_wave of play_chord
    exc,               \* exc[r]: the exception the try block raised, or "none"
    failed_note,       \* failed_note[r]: the note whose render raised, or ""
    printed,           \* printed[r]: the line request r printed, or <<>>
    ret,               \* ret[r]: what the call returned to its caller
    nplays,            \* nplays[r]: the sd.play calls of request r that took a buffer
    submitted,         \* submitted[r]: the buffer sd.play took from request r
    stream,            \* stream[r]: the output stream sd.play made for request r
    last_callback,     \* sounddevice's _last_callback: the request of the last stream
    mainpc,            \* the main thread: "ready", "call", "wait" or "raised"
    listenerpc,        \* the key listener's thread: "ready", "call" or "raised"
    wait_target,       \* the stream the sd.wait() in progress waits for
    wait_issued,       \* the requests issued before the last wait() call
    wait_submitted,    \* the requests whose buffer was submitted before it
    wait_returned,     \* whether the last wait() call has returned
    generated,         \* the result of the last WaveGenerator call made on its own
    current_octave,    \* PianoKeyboard.current_octave
    current_sound,     \* PianoKeyboard.current_sound
    current_chord,     \* PianoKeyboard.current_chord
    last_played_note,  \* PianoKeyboard._last_played_note, "" while the attribute is unset
    running,           \* PianoKeyboard.running
    handled,           \* the last key event: its key, its handler, the request it started
    effect             \* the result of the last AudioEffects call made on its own

engine_vars ==
    <<nreq, call, pc, idx, combined, exc, failed_note, printed, ret, nplays,
      submitted, stream, last_callback, mainpc, listenerpc>>

wait_vars == <<wait_target, wait_issued, wait_submitted, wait_returned>>

keyboard_vars ==
    <<current_octave, current_sound, current_chord, last_played_note, running>>

other_vars == <<handled, registry, effect>>

vars == <<engine_vars, wait_vars, generated, keyboard_vars, other_vars>>

Requests == 1..MaxReq

NoCall ==
    [kind |-> "none", notes |-> <<>>, octave |-> 0, sound_type |-> "", duration |-> 0,
     via |-> "none", thread |-> "none"]

NotGenerated ==
    [kind |-> "none", note |-> "", octave |-> 0, frequency |-> <<>>, duration |-> 0,
     exc |-> "none", buf |-> NoneBuf]

NotHandled == [key |-> "", handler |-> "none", req |-> 0, tick |-> FALSE]

NoEffect == [fx |-> "none", args |-> <<>>, exc |-> "none", out |-> <<>>]

\* the state after the imports and PianoKeyboard.__init__
Constructed ==
    /\ nreq = 0
    /\ call = [r \in Requests |-> NoCall]
    /\ pc = [r \in Requests |-> "idle"]
    /\ idx = [r \in Requests |-> 1]
    /\ combined = [r \in Requests |-> NoneBuf]
    /\ exc = [r \in Requests |-> "none"]
    /\ failed_note = [r \in Requests |-> ""]
    /\ printed = [r \in Requests |-> <<>>]
    /\ ret = [r \in Requests |-> "pending"]
    /\ nplays = [r \in Requests |-> 0]
    /\ submitted = [r \in Requests |-> NoneBuf]
    /\ stream = [r \in Requests |-> "none"]
    /\ last_callback = 0
    /\ mainpc = "ready"
    /\ listenerpc = "ready"
    /\ wait_target = 0
    /\ wait_issued = {}
    /\ wait_submitted = {}
    /\ wait_returned = FALSE
    /\ generated = NotGenerated
    /\ current_octave = 4
    /\ current_sound = "piano"
    /\ current_chord = "major"
    /\ last_played_note = ""
    /\ running = TRUE
    /\ handled = NotHandled
    /\ effect = NoEffect

Init == Constructed /\ registry = "octaves"

\* ------------------------------------------------------------------------
\* Threads
\* ------------------------------------------------------------------------

\* the call made on the listener's own thread
PlayerThreadInline == "listener"

\* threading.Thread(target=SoundPlayer.play_note, ..., daemon=True).start():
\* the keyboard's requests run on a thread of their own
PlayerThread == "worker"

\* a request enters SoundPlayer.play_note or SoundPlayer.play_chord
Enter(c) ==
    LET r == nreq + 1
    IN  /\ nreq < MaxReq
        /\ nreq' = r
        /\ call' = [call EXCEPT ![r] = c]
        /\ pc' = [pc EXCEPT ![r] = IF c.kind = "chord" /\ c.notes = <<>>
                                    THEN "submit" ELSE "render"]
        /\ mainpc' = IF c.thread = "main" THEN "call" ELSE mainpc
        /\ listenerpc' = IF c.thread = "listener" THEN "call" ELSE listenerpc

\* the call of request r is over on the thread that ran it
Release(r, how) ==
    /\ mainpc' = IF call[r].thread = "main" THEN how ELSE mainpc
    /\ listenerpc' = IF call[r].thread = "listener" THEN how ELSE listenerpc

\* ------------------------------------------------------------------------
\* SoundPlayer.play_note and SoundPlayer.play_chord, called directly
\* ------------------------------------------------------------------------

DirectPlayNote(note, octave, sound_type, duration) ==
    /\ mainpc = "ready"
    /\ Enter([kind |-> "note", notes |-> <<note>>, octave |-> octave,
              sound_type |-> sound_type, duration |-> duration,
              via |-> "direct", thread |-> "main"])
    /\ UNCHANGED <<idx, combined, exc, failed_note, printed, ret, nplays, submitted,
                   stream, last_callback, wait_vars, generated, keyboard_vars, other_vars>>

DirectPlayChord(notes, octave, sound_type, duration) ==
    /\ mainpc = "ready"
    /\ Enter([kind |-> "chord", notes |-> notes, octave |-> octave,
              sound_type |-> sound_type, duration |-> duration,
              via |-> "direct", thread |-> "main"])
    /\ UNCHANGED <<idx, combined, exc, failed_note, printed, ret, nplays, submitted,
                   stream, last_callback, wait_vars, generated, keyboard_vars, other_vars>>

\* sound_func = getattr(...); wave = sound_func(note, octave, duration)
RenderVoice(r, note) ==
    CallSoundFunc(LookupSoundFunc(call[r].sound_type), note, call[r].octave,
                  call[r].duration)

\* a loop that passes over the note that failed and goes on with the next
OnRenderRaiseSkip(i, n) == [pc |-> IF i = n THEN "submit" ELSE "render", idx |-> i + 1]

\* where the try block goes when rendering note i of n raised
OnRenderRaise(i, n) == [pc |-> "except", idx |-> i]

\* play_note: lines 232-233
RenderNote(r) ==
    /\ pc[r] = "render"
    /\ call[r].kind = "note"
    /\ LET res == RenderVoice(r, call[r].notes[1])
       IN  IF res.exc = "none"
           THEN /\ combined' = [combined EXCEPT ![r] = res.buf]
                /\ pc' = [pc EXCEPT ![r] = "submit"]
                /\ UNCHANGED <<exc, failed_note>>
           ELSE /\ exc' = [exc EXCEPT ![r] = res.exc]
                /\ failed_note' = [failed_note EXCEPT ![r] = call[r].notes[1]]
                /\ pc' = [pc EXCEPT ![r] = "except"]
                /\ UNCHANGED combined
    /\ UNCHANGED <<nreq, call, idx, printed, ret, nplays, submitted, stream,
                   last_callback, mainpc, listenerpc, wait_vars, generated,
                   keyboard_vars, other_vars>>

\* play_chord: one pass of the loop of lines 245-254
RenderChordVoice(r) ==
    /\ pc[r] = "render"
    /\ call[r].kind = "chord"
    /\ idx[r] <= Len(call[r].notes)
    /\ LET n   == Len(call[r].notes)
           res == RenderVoice(r, call[r].notes[idx[r]])
           to  == OnRenderRaise(idx[r], n)
       IN  IF res.exc = "none"
           THEN /\ combined' = [combined EXCEPT ![r] = MixIn(@, res.buf)]
                /\ idx' = [idx EXCEPT ![r] = @ + 1]
                /\ pc' = [pc EXCEPT ![r] = IF idx[r] = n THEN "submit" ELSE "render"]
                /\ UNCHANGED <<exc, failed_note>>
           ELSE /\ exc' = [exc EXCEPT ![r] = IF to.pc = "except" THEN res.exc ELSE @]
                /\ failed_note' = [failed_note EXCEPT ![r] = call[r].notes[idx[r]]]
                /\ idx' = [idx EXCEPT ![r] = to.idx]
                /\ pc' = [pc EXCEPT ![r] = to.pc]
                /\ UNCHANGED combined
    /\ UNCHANGED <<nreq, call, printed, ret, nplays, submitted, stream,
                   last_callback, mainpc, listenerpc, wait_vars, generated,
                   keyboard_vars, other_vars>>

\* ------------------------------------------------------------------------
\* The sink: the sounddevice module (sd.play, sd.wait)
\* ------------------------------------------------------------------------

\* sd.play(data, samplerate) checks the data, stops the stream of the play
\* call before it (sounddevice keeps one, _last_callback), starts a stream of
\* its own for the data and returns while that stream plays.

\* the streams after sounddevice's stop() of the previous playback
StopPrevious ==
    [q \in Requests |->
        IF q = last_callback /\ stream[q] = "playing" THEN "stopped" ELSE stream[q]]

\* sd.play took the buffer and returned; the call returns None
SdPlayOk(r) ==
    /\ pc[r] = "submit"
    /\ combined[r] # NoneBuf
    /\ stream' = [StopPrevious EXCEPT ![r] = "playing"]
    /\ last_callback' = r
    /\ nplays' = [nplays EXCEPT ![r] = @ + 1]
    /\ submitted' = [submitted EXCEPT ![r] = combined[r]]
    /\ pc' = [pc EXCEPT ![r] = "done"]
    /\ ret' = [ret EXCEPT ![r] = "None"]
    /\ Release(r, "ready")
    /\ UNCHANGED <<nreq, call, idx, combined, exc, failed_note, printed, wait_vars,
                   generated, keyboard_vars, other_vars>>

\* sd.play raised: None is no audio data (TypeError, before anything is
\* stopped); the device may refuse any stream (PortAudioError, after the
\* previous stream was stopped)
SdPlayRaises(r) ==
    /\ pc[r] = "submit"
    /\ IF combined[r] = NoneBuf
       THEN /\ exc' = [exc EXCEPT ![r] = "TypeError"]
            /\ UNCHANGED stream
       ELSE /\ exc' = [exc EXCEPT ![r] = "PortAudioError"]
            /\ stream' = StopPrevious
    /\ pc' = [pc EXCEPT ![r] = "except"]
    /\ UNCHANGED <<nreq, call, idx, combined, failed_note, printed, ret, nplays,
                   submitted, last_callback, mainpc, listenerpc, wait_vars, generated,
                   keyboard_vars, other_vars>>

\* the line the handler prints
ErrorLine(r) ==
    IF call[r].kind = "note"
    THEN <<"Error playing", call[r].notes[1], call[r].octave, exc[r]>>
    ELSE <<"Error playing chord", exc[r]>>

\* except Exception as e: print(...), and the call returns None
Except(r) ==
    /\ pc[r] = "except"
    /\ IF Catches(exc[r])
       THEN /\ printed' = [printed EXCEPT ![r] = ErrorLine(r)]
            /\ pc' = [pc EXCEPT ![r] = "done"]
            /\ ret' = [ret EXCEPT ![r] = "None"]
            /\ Release(r, "ready")
       ELSE /\ pc' = [pc EXCEPT ![r] = "propagated"]
            /\ Release(r, "raised")
            /\ UNCHANGED <<printed, ret>>
    /\ UNCHANGED <<nreq, call, idx, combined, exc, failed_note, nplays, submitted,
                   stream, last_callback, wait_vars, generated, keyboard_vars, other_vars>>

\* the device has played the stream of request r to its end
PlaybackEnds(r) ==
    /\ stream[r] = "playing"
    /\ stream' = [stream EXCEPT ![r] = "finished"]
    /\ UNCHANGED <<nreq, call, pc, idx, combined, exc, failed_note, printed, ret,
                   nplays, submitted, last_callback, mainpc, listenerpc, wait_vars,
                   generated, keyboard_vars, other_vars>>

\* a wait that does not block
WaitOverAtOnce(target) == TRUE

\* sd.wait() returns when _last_callback is unset, or when the stream it
\* held at the call has finished or been stopped
WaitOver(target) == IF target = 0 THEN TRUE ELSE stream[target] # "playing"

\* SoundPlayer.wait() is called
WaitCall ==
    /\ mainpc = "ready"
    /\ mainpc' = "wait"
    /\ wait_target' = last_callback
    /\ wait_issued' = 1..nreq
    /\ wait_submitted' = {r \in Requests : nplays[r] > 0}
    /\ wait_returned' = FALSE
    /\ UNCHANGED <<nreq, call, pc, idx, combined, exc, failed_note, printed, ret,
                   nplays, submitted, stream, last_callback, listenerpc, generated,
                   keyboard_vars, other_vars>>

\* SoundPlayer.wait() returns
WaitReturn ==
    /\ mainpc = "wait"
    /\ WaitOver(wait_target)
    /\ mainpc' = "ready"
    /\ wait_returned' = TRUE
    /\ UNCHANGED <<nreq, call, pc, idx, combined, exc, failed_note, printed, ret,
                   nplays, submitted, stream, last_callback, listenerpc, wait_target,
                   wait_issued, wait_submitted, generated, keyboard_vars, other_vars>>

\* ------------------------------------------------------------------------
\* WaveGenerator, called on its own
\* ------------------------------------------------------------------------

\* the default amplitude of WaveGenerator.__init__
DefaultAmplitude == 300

\* WaveGenerator(note, octave).<kind>_wave(duration)
GenerateWave(kind, note, octave, duration) ==
    /\ LET gen == WaveGenerator(note, octave, DefaultAmplitude)
           res == GenerateKind(gen, kind, duration)
       IN  generated' = [kind |-> kind, note |-> note, octave |-> octave,
                         frequency |-> gen.frequency, duration |-> duration,
                         exc |-> res.exc, buf |-> res.buf]
    /\ UNCHANGED <<engine_vars, wait_vars, keyboard_vars, other_vars>>

\* a generator whose frequency attribute holds the number of hertz given;
\* the model holds such a frequency as <<"Hz", frequency>>
GeneratorAt(frequency, amplitude) ==
    [exc |-> "none", frequency |-> <<"Hz", frequency>>, amplitude |-> amplitude]

\* <generator of that frequency>.<kind>_wave(duration)
GenerateAtFrequency(kind, frequency, duration) ==
    /\ LET gen == GeneratorAt(frequency, DefaultAmplitude)
           res == GenerateKind(gen, kind, duration)
       IN  generated' = [kind |-> kind, note |-> "", octave |-> 0,
                         frequency |-> gen.frequency, duration |-> duration,
                         exc |-> res.exc, buf |-> res.buf]
    /\ UNCHANGED <<engine_vars, wait_vars, keyboard_vars, other_vars>>

\* ------------------------------------------------------------------------
\* AudioEffects, called on their own
\* ------------------------------------------------------------------------

\* AudioEffects.apply_envelope(wave, attack, decay, sustain, release) on a
\* wave of total_samples samples; out holds the multiplier of each sample
ApplyEnvelope(total_samples, attack, decay, sustain, release) ==
    /\ LET A   == SamplesOfMicros(attack)
           D   == SamplesOfMicros(decay)
           R   == SamplesOfMicros(release)
           res == EnvelopeArray(total_samples, A, D, sustain, R)
       IN  effect' = [fx |-> "envelope",
                      args |-> [N |-> total_samples, A |-> A, D |-> D, R |-> R,
                               sustain |-> sustain],
                      exc |-> res.exc, out |-> res.out]
    /\ UNCHANGED <<engine_vars, wait_vars, generated, keyboard_vars, handled, registry>>

\* AudioEffects.apply_reverb(wave, reverb_amount, delay_ms) on a wave of
\* total_samples samples
ApplyReverb(total_samples, delay) ==
    /\ LET delay_samples == SamplesOfMicros(delay)
           res == ReverbArray(total_samples, delay_samples)
       IN  effect' = [fx |-> "reverb",
                      args |-> [N |-> total_samples, delay_samples |-> delay_samples],
                      exc |-> res.exc, out |-> res.out]
    /\ UNCHANGED <<engine_vars, wait_vars, generated, keyboard_vars, handled, registry>>

\* ------------------------------------------------------------------------
\* PianoKeyboard
\* ------------------------------------------------------------------------

get_octave_for_note(note) ==
    IF /\ note \in {"C", "D", "E"}
       /\ last_played_note # ""
       /\ last_played_note \in {"A", "B", "A#"}
    THEN current_octave + 1
    ELSE current_octave

\* the thread of lines 73-77 and 90-94 is started
StartPlayer(kind, notes, octave, duration) ==
    Enter([kind |-> kind, notes |-> notes, octave |-> octave,
           sound_type |-> current_sound, duration |-> duration,
           via |-> "keyboard", thread |-> PlayerThread])

\* the octave of get_octave_for_note, passed on as it is
PlayOctaveUnchecked(note) == get_octave_for_note(note)

\* the octave play_note settles on, or -1 when it gives the note up
PlayOctave(note) ==
    LET octave == get_octave_for_note(note)
        lower  == IF octave > 0 THEN octave - 1 ELSE octave
    IN  IF is_valid_note(note, octave) THEN octave
        ELSE IF is_valid_note(note, lower) THEN lower
        ELSE -1

play_note(note) ==
    IF PlayOctave(note) = -1
    THEN UNCHANGED <<engine_vars, wait_vars, generated, keyboard_vars>>
    ELSE /\ StartPlayer("note", <<note>>, PlayOctave(note), Second)
         /\ last_played_note' = note
         /\ UNCHANGED <<idx, combined, exc, failed_note, printed, ret, nplays,
                        submitted, stream, last_callback, wait_vars, generated,
                        current_octave, current_sound, current_chord, running>>

play_chord ==
    /\ StartPlayer("chord", chords[current_chord], current_octave, 2 * Second)
    /\ UNCHANGED <<idx, combined, exc, failed_note, printed, ret, nplays, submitted,
                   stream, last_callback, wait_vars, generated, keyboard_vars>>

\* a change of octave without the test of the range
change_octave_unchecked(direction) ==
    /\ current_octave' = current_octave + direction
    /\ UNCHANGED <<engine_vars, wait_vars, generated, current_sound, current_chord,
                   last_played_note, running>>

change_octave(direction) ==
    LET new_octave == current_octave + direction
    IN  /\ current_octave' = IF 0 <= new_octave /\ new_octave <= 8
                             THEN new_octave ELSE current_octave
        /\ UNCHANGED <<engine_vars, wait_vars, generated, current_sound, current_chord,
                       last_played_note, running>>

change_sound(sound_key) ==
    /\ current_sound' = IF sound_key \in DOMAIN sound_keys
                        THEN sound_keys[sound_key] ELSE current_sound
    /\ UNCHANGED <<engine_vars, wait_vars, generated, current_octave, current_chord,
                   last_played_note, running>>

\* chord_list.index(self.current_chord)
ChordIndex == CHOOSE i \in 1..Len(chord_list) : chord_list[i] = current_chord

cycle_chord ==
    /\ current_chord' = chord_list[(ChordIndex % Len(chord_list)) + 1]
    /\ UNCHANGED <<engine_vars, wait_vars, generated, current_octave, current_sound,
                   last_played_note, running>>

random_sound ==
    /\ \E k \in DOMAIN sound_keys : current_sound' = sound_keys[k]
    /\ UNCHANGED <<engine_vars, wait_vars, generated, current_octave, current_chord,
                   last_played_note, running>>

\* show_help only prints
show_help == UNCHANGED <<engine_vars, wait_vars, generated, keyboard_vars>>

quit ==
    /\ running' = FALSE
    /\ UNCHANGED <<engine_vars, wait_vars, generated, current_octave, current_sound,
                   current_chord, last_played_note>>

\* the method on_key_press calls for a key: the tests of lines 172, 177 and
\* 183-196 in their order
Handler(key) ==
    IF key \in DOMAIN sound_keys THEN "change_sound"
    ELSE IF key \in DOMAIN key_mapping THEN "play_note"
    ELSE IF key = "up" THEN "change_octave"
    ELSE IF key = "down" THEN "change_octave"
    ELSE IF key = "space" THEN "play_chord"
    ELSE IF key = "tab" THEN "cycle_chord"
    ELSE IF key = "r" THEN "random_sound"
    ELSE IF key = "h" THEN "show_help"
    ELSE IF key \in {"esc", "q"} THEN "quit"
    ELSE "none"

\* the listener's callback; key is event.name.lower()
on_key_press(key) ==
    /\ listenerpc = "ready"
    /\ running
    /\ CASE Handler(key) = "change_sound" -> change_sound(key)
         [] Handler(key) = "play_note" -> play_note(key_mapping[key])
         [] Handler(key) = "change_octave" -> change_octave(IF key = "up" THEN 1 ELSE -1)
         [] Handler(key) = "play_chord" -> play_chord
         [] Handler(key) = "cycle_chord" -> cycle_chord
         [] Handler(key) = "random_sound" -> random_sound
         [] Handler(key) = "show_help" -> show_help
         [] Handler(key) = "quit" -> quit
         [] OTHER -> UNCHANGED <<engine_vars, wait_vars, generated, keyboard_vars>>
    /\ handled' = [key |-> key, handler |-> Handler(key),
                   req |-> IF nreq' # nreq THEN nreq' ELSE 0,
                   tick |-> ~handled.tick]
    /\ UNCHANGED <<registry, effect>>

\* change_sound called with a key of the caller's choice
CallChangeSound(sound_key) ==
    /\ running
    /\ change_sound(sound_key)
    /\ handled' = [key |-> sound_key, handler |-> "change_sound", req |-> 0,
                   tick |-> ~handled.tick]
    /\ UNCHANGED <<registry, effect>>

\* ------------------------------------------------------------------------
\* Spec: the player under concurrent requests
\* ------------------------------------------------------------------------

\* the keys pressed in Spec
SpecKeys == {"n", "space"}

\* a step of request r
Step(r) ==
    \/ RenderNote(r)
    \/ RenderChordVoice(r)
    \/ SdPlayOk(r)
    \/ SdPlayRaises(r)
    \/ Except(r)
    \/ PlaybackEnds(r)

\* the direct call of Spec is the audio test of PianoKeyboard.start,
\* SoundPlayer.play_note('A', 4, 'sine', 0.2)
Next ==
    \/ DirectPlayNote("A", 4, "sine", Second \div 5)
    \/ \E key \in SpecKeys : on_key_press(key)
    \/ \E r \in Requests : Step(r)
    \/ WaitCall
    \/ WaitReturn

Spec == Init /\ [][Next]_vars

\* ------------------------------------------------------------------------
\* RenderSpec: one call of the engine on each input of a range of inputs,
\* and one more call after it
\* ------------------------------------------------------------------------

BuiltinKeys == DOMAIN AVAILABLE_SOUNDS

\* "H" is no note of the registry, 9 no octave of it
InputNotes == {"A", "H"}

InputOctaves == {4, 9}

InputSounds == BuiltinKeys \cup {"nonexistent", "synth_lead", "__doc__"}

InputDurations == {-Second, -1, 0, 1, Second \div 1000, Second \div 5, Second, 2 * Second}

\* the hertz of a generator made for GenerateAtFrequency
InputFrequencies == {-440, 0, 440}

InputChords == {<<>>, <<"C">>, <<"C", "E", "G">>, <<"C", "H", "G">>, <<"H", "C">>}

RenderNext ==
    \/ \E note \in InputNotes, octave \in InputOctaves, sound_type \in InputSounds,
          duration \in InputDurations :
          /\ nreq = 0
          /\ generated = NotGenerated
          /\ DirectPlayNote(note, octave, sound_type, duration)
    \/ \E notes \in InputChords, sound_type \in InputSounds, duration \in InputDurations :
          /\ nreq = 0
          /\ generated = NotGenerated
          /\ DirectPlayChord(notes, 4, sound_type, duration)
    \/ /\ nreq = 1
       /\ DirectPlayNote("A", 4, "piano", Second)
    \/ \E kind \in WaveKinds, note \in InputNotes, octave \in InputOctaves,
          duration \in InputDurations :
          /\ nreq = 0
          /\ generated = NotGenerated
          /\ GenerateWave(kind, note, octave, duration)
    \/ \E kind \in WaveKinds, frequency \in InputFrequencies,
          duration \in InputDurations :
          /\ nreq = 0
          /\ generated = NotGenerated
          /\ GenerateAtFrequency(kind, frequency, duration)
    \/ \E r \in Requests : Step(r)

RenderSpec == Init /\ [][RenderNext]_vars

\* ------------------------------------------------------------------------
\* ControlSpec: the control keys of the help text, and one playing key at most
\* ------------------------------------------------------------------------

ControlKeys == {"space", "tab", "r", "h", "esc", "q"}

Plays(key) == Handler(key) \in {"play_note", "play_chord"}

ControlNext ==
    \E key \in ControlKeys :
        /\ Plays(key) => nreq = 0
        /\ on_key_press(key)

ControlSpec == Init /\ [][ControlNext]_vars

\* ------------------------------------------------------------------------
\* NotesSpec: piano keys and octave changes, over each registry
\* ------------------------------------------------------------------------

\* 'n' is A, 'z' and ',' are C
NoteKeys == {"n", "z", ","}

NotesInit == Constructed /\ registry \in Registries

NotesNext == \E key \in NoteKeys \cup {"up", "down"} : on_key_press(key)

NotesSpec == NotesInit /\ [][NotesNext]_vars

\* ------------------------------------------------------------------------
\* SessionSpec: the keys that change the settings of the session
\* ------------------------------------------------------------------------

\* '0' is no sound key and no other key of on_key_press
SettingKeys == {"up", "down", "1", "4", "9", "0", "tab", "r", "q"}

SessionNext ==
    \/ \E key \in SettingKeys : on_key_press(key)
    \/ \E sound_key \in {"0", "4"} : CallChangeSound(sound_key)

SessionSpec == Init /\ [][SessionNext]_vars

\* ------------------------------------------------------------------------
\* EffectSpec: one effect on one short array after another
\* ------------------------------------------------------------------------

\* the longest array of EffectSpec
MaxLen == 7

\* 10 microseconds are no sample, 23 one, 46 two, 69 three, 160 seven
InputMicros == {0, 10, 23, 46, 69}

InputDelays == InputMicros \cup {160}

InputSustains == {0, 700, 1000}

EffectNext ==
    \/ \E total_samples \in 0..MaxLen, attack \in InputMicros, decay \in InputMicros,
          sustain \in InputSustains, release \in InputMicros :
          /\ effect = NoEffect
          /\ ApplyEnvelope(total_samples, attack, decay, sustain, release)
    \/ \E total_samples \in 0..MaxLen, delay \in InputDelays :
          /\ effect = NoEffect
          /\ ApplyReverb(total_samples, delay)

EffectSpec == Init /\ [][EffectNext]_vars

\* ------------------------------------------------------------------------
\* What the claims speak of
\* ------------------------------------------------------------------------

Issued == {r \in Requests : call[r].kind # "none"}

\* the try block of request r is over: it reached sd.play or the handler
Rendered(r) == pc[r] \in {"submit", "except", "done", "propagated"}

\* request r's call is under way: not yet returned to whoever runs it
InCall(r) == pc[r] \in {"render", "submit", "except"}

RECURSIVE MixOf(_, _, _, _)
\* the mix of the voices i.. of call c, each rendered by preset method f
MixOf(f, c, i, acc) ==
    IF i > Len(c.notes) THEN Ok(acc)
    ELSE LET res == CallSoundFunc(f, c.notes[i], c.octave, c.duration)
         IN  IF res.exc # "none" THEN res
             ELSE MixOf(f, c, i + 1,
                        IF acc = NoneBuf THEN Scale(res.buf)
                        ELSE [len |-> Min(acc.len, res.buf.len),
                              parts |-> acc.parts \o Scale(res.buf).parts])

\* what preset method f renders for call c
RenderedBy(f, c) ==
    IF c.kind = "note"
    THEN CallSoundFunc(f, c.notes[1], c.octave, c.duration)
    ELSE MixOf(f, c, 1, NoneBuf)

\* request r rendered what preset method f renders: the same failure, or the
\* same buffer, which is then the buffer the sink took if it took one
RendersAs(r, f) ==
    LET want == RenderedBy(f, call[r])
    IN  IF want.exc # "none"
        THEN exc[r] = want.exc /\ nplays[r] = 0
        ELSE /\ combined[r] = want.buf
             /\ exc[r] \in {"none", "TypeError", "PortAudioError"}
             /\ exc[r] = "TypeError" => want.buf = NoneBuf
             /\ nplays[r] > 0 => submitted[r] = want.buf

\* C1: a preset key that is none of the nine built-in keys is rendered as
\* piano: the call renders (and submits) exactly what it does for key "piano"
C1_UnknownKeyIsPiano ==
    \A r \in Issued :
        (Rendered(r) /\ call[r].sound_type \notin BuiltinKeys) => RendersAs(r, "piano")

\* C2: each built-in key is rendered by the preset AVAILABLE_SOUNDS lists for
\* it, with that preset's oscillator and effects in its order
C2_BuiltinKeyIsOwnPreset ==
    \A r \in Issued :
        (Rendered(r) /\ call[r].sound_type \in BuiltinKeys)
            => RendersAs(r, AVAILABLE_SOUNDS[call[r].sound_type])

\* C3: play_chord hands the sink at most one buffer, only after every note
\* of the chord was rendered, and none at all when the render of a note raised
C3_NoPartialChord ==
    \A r \in Issued :
        call[r].kind = "chord" =>
            /\ nplays[r] <= 1
            /\ nplays[r] > 0 =>
                   /\ failed_note[r] = ""
                   /\ idx[r] = Len(call[r].notes) + 1
                   /\ Len(submitted[r].parts) = Len(call[r].notes)
            /\ failed_note[r] # "" => (nplays[r] = 0 /\ stream[r] = "none")

\* a chord whose second or later note failed after voices were mixed, over
C3_Witness ==
    \E r \in Issued :
        /\ call[r].kind = "chord"
        /\ pc[r] = "done"
        /\ failed_note[r] # ""
        /\ idx[r] > 1
        /\ combined[r] # NoneBuf
        /\ nplays[r] = 0

\* sample j of an array: the term of every voice summed in it, in order
SampleAt(buf, j) ==
    [i \in 1..Len(buf.parts) |-> <<buf.parts[i].gain, [buf.parts[i] EXCEPT !.gain = 10], j>>]

\* the indices at which the samples of an array of len samples are compared
Probes(len) == {j \in {0, 1, len \div 2, len - 2, len - 1} : 0 <= j /\ j < len}

\* the least of a non-empty set of numbers
Least(S) == CHOOSE x \in S : \A y \in S : x <= y

\* C4: the buffer play_chord submits is as long as the shortest voice and
\* its sample j is the sum over the voices of 0.7 times the voice's sample j
C4_ChordIsSumOfVoices ==
    \A r \in Issued :
        (call[r].kind = "chord" /\ nplays[r] > 0) =>
            LET n     == Len(call[r].notes)
                voice == [i \in 1..n |-> RenderVoice(r, call[r].notes[i]).buf]
                mix   == submitted[r]
            IN  /\ n > 0
                /\ mix.len = Least({voice[i].len : i \in 1..n})
                /\ \A j \in Probes(mix.len) :
                       SampleAt(mix, j) =
                           [i \in 1..n |-> <<ChordGain, voice[i].parts[1], j>>]

\* a chord of three notes was submitted
C4_Witness ==
    \E r \in Issued :
        /\ call[r].kind = "chord"
        /\ nplays[r] = 1
        /\ Len(call[r].notes) = 3
        /\ submitted[r].len > 0

\* the thread a request's caller runs on
CallerPc(r) == IF call[r].via = "direct" THEN mainpc ELSE listenerpc

\* C5 as stated: no play request holds its caller while it is rendered and
\* submitted
C5_CallerNeverHeld == \A r \in Issued : InCall(r) => CallerPc(r) # "call"

\* C5: the keyboard's requests do not hold the listener while they are
\* rendered and submitted; a direct call of SoundPlayer holds its caller until
\* sd.play has taken the buffer or the handler has run, and no call is held
\* while its stream plays
C5_OnlyKeyboardReturnsAtOnce ==
    \A r \in Issued :
        /\ (call[r].via = "keyboard" /\ InCall(r)) => listenerpc # "call"
        /\ (call[r].via = "direct" /\ InCall(r)) => mainpc = "call"
        /\ stream[r] = "playing" => (pc[r] = "done" /\ ret[r] = "None")

\* the listener is free while a keyboard request is unrendered and the
\* stream of an earlier request plays
C5_Witness ==
    \E r, q \in Issued :
        /\ call[r].via = "keyboard"
        /\ pc[r] = "render"
        /\ listenerpc = "ready"
        /\ q < r
        /\ stream[q] = "playing"

\* C6 as stated: when wait() has returned, every request issued before the
\* call is over and its audio no longer plays
C6_WaitCoversIssued ==
    wait_returned => \A r \in wait_issued : pc[r] = "done" /\ stream[r] # "playing"

\* C6: when wait() has returned, no buffer that sd.play had taken before
\* the call still plays
C6_WaitCoversSubmitted ==
    wait_returned => \A r \in wait_submitted : stream[r] # "playing"

\* wait() returned after the stream it waited for was played to its end,
\* with a request issued before the call still under way
C6_Witness ==
    /\ wait_returned
    /\ wait_target \in wait_submitted
    /\ stream[wait_target] = "finished"
    /\ \E q \in wait_issued \ wait_submitted : InCall(q)

\* C7: no stream is cut off before its end by a later play request
C7_NeverCancelled == \A r \in Requests : stream[r] # "stopped"

\* C8: a call whose render or submission failed returns a failure to its
\* caller
C8_FailureReturned ==
    \A r \in Issued : (pc[r] = "done" /\ exc[r] # "none") => ret[r] # "None"

\* C9: no exception leaves play_note or play_chord: the call returns, its
\* thread goes on, and a request made after a failed one is processed
C9_NothingPropagates ==
    /\ mainpc # "raised"
    /\ listenerpc # "raised"
    /\ \A r \in Issued :
           /\ pc[r] # "propagated"
           /\ (pc[r] = "done" /\ exc[r] # "none") =>
                  (ret[r] = "None" /\ printed[r] # <<>> /\ CallerPc(r) # "raised")

\* a request failed and the request made after it was submitted
C9_Witness ==
    \E r, q \in Issued :
        /\ r < q
        /\ pc[r] = "done"
        /\ exc[r] # "none"
        /\ pc[q] = "done"
        /\ nplays[q] = 1

\* floor(SAMPLE_RATE * duration), for a duration > 0
FloorSamples(duration) == ((SAMPLE_RATE \div 100) * duration) \div (Second \div 100)

\* C10: every waveform of a known note has floor(SAMPLE_RATE * duration)
\* samples when duration > 0 and is empty, with no error, when duration <= 0
C10_LengthIsFloorOrZero ==
    (generated.kind # "none" /\ is_valid_note(generated.note, generated.octave)) =>
        /\ generated.exc = "none"
        /\ generated.buf.len = IF generated.duration > 0
                               THEN FloorSamples(generated.duration) ELSE 0

\* ------------------------------------------------------------------------
\* C11
\* ------------------------------------------------------------------------

GeneratedInHertz ==
    /\ generated.kind # "none"
    /\ Len(generated.frequency) = 2
    /\ generated.frequency[1] = "Hz"

\* C11: a wave generated at a frequency of zero hertz or less fails with
\* InvalidFrequency and yields no buffer.
C11_NonPositiveFrequencyFails ==
    (GeneratedInHertz /\ generated.frequency[2] <= 0) =>
        /\ generated.exc = "InvalidFrequency"
        /\ generated.buf = NoneBuf

\* ------------------------------------------------------------------------
\* C12
\* ------------------------------------------------------------------------

\* what the help text says each control key does
Advertised(key) ==
    CASE key = "space" -> "play_chord"
      [] key = "tab" -> "cycle_chord"
      [] key = "r" -> "random_sound"
      [] key = "h" -> "show_help"
      [] key \in {"esc", "q"} -> "quit"

\* C12: the last control key pressed ran the method the help text gives it,
\* and started no note.
C12_ControlKeysAsAdvertised ==
    handled.key \in ControlKeys =>
        /\ handled.handler = Advertised(handled.key)
        /\ handled.req # 0 => call[handled.req].kind # "note"

\* ------------------------------------------------------------------------
\* C13
\* ------------------------------------------------------------------------

\* C13: apply_envelope does not fail, and returns as many samples as it was
\* given, whatever the length of the wave and of the three ramps.
C13_EnvelopeNeverFails ==
    effect.fx = "envelope" =>
        /\ effect.exc = "none"
        /\ Len(effect.out) = effect.args.N

\* ------------------------------------------------------------------------
\* C14
\* ------------------------------------------------------------------------

SustainSamples(a) == a.N - a.A - a.D - a.R

\* the last call was apply_envelope with a sustain segment of a sample or more
EnvelopeWithSustain == effect.fx = "envelope" /\ SustainSamples(effect.args) > 0

IsZero(val) == val[1] = 0

IsLevel(val, level) == val[1] = level * val[2]

\* the segment that sample j belongs to when the four segments follow one another
SegmentOf(a, j) ==
    IF j < a.A THEN "attack"
    ELSE IF j < a.A + a.D THEN "decay"
    ELSE IF j < a.A + a.D + SustainSamples(a) THEN "sustain"
    ELSE "release"

\* every sample of the sustain segment is the sustain level, and every sample
\* was written once, by the segment it belongs to
SustainExactAndTiled ==
    LET a == effect.args
    IN  /\ effect.exc = "none"
        /\ Len(effect.out) = a.N
        /\ \A j \in (a.A + a.D)..(a.A + a.D + SustainSamples(a) - 1) :
               IsLevel(effect.out[j + 1].val, a.sustain)
        /\ \A j \in 0..(a.N - 1) : effect.out[j + 1].by = <<SegmentOf(a, j)>>

\* C14 as stated: with a sustain segment, the multiplier of sample 0 is 0,
\* that of the sustain segment is the sustain level, that of the last sample
\* is 0, and the four segments tile the samples.
C14_EnvelopeShape ==
    EnvelopeWithSustain =>
        /\ SustainExactAndTiled
        /\ IsZero(effect.out[1].val)
        /\ IsZero(effect.out[effect.args.N].val)

\* C14, amended: sample 0 is 0 when the attack has a sample, the last sample
\* is 0 when the release has two or more; a release of one sample is the
\* sustain level, and without a release the last sample is the sustain level.
C14_EnvelopeShapeOfRamps ==
    EnvelopeWithSustain =>
        /\ SustainExactAndTiled
        /\ effect.args.A >= 1 => IsZero(effect.out[1].val)
        /\ effect.args.R >= 2 => IsZero(effect.out[effect.args.N].val)
        /\ effect.args.R <= 1 => IsLevel(effect.out[effect.args.N].val, effect.args.sustain)

C14_Witness ==
    /\ EnvelopeWithSustain
    /\ effect.args.A >= 2
    /\ effect.args.D >= 1
    /\ effect.args.R >= 2
    /\ effect.args.sustain = 700
    /\ IsZero(effect.out[effect.args.N].val)

\* ------------------------------------------------------------------------
\* C15
\* ------------------------------------------------------------------------

\* the echoes the claim gives sample j of a wave delayed by d samples
ClaimedEchoes(j, d) ==
    {[tap |-> i, src |-> j - (i + 1) * d] : i \in {t \in Taps : (t + 1) * d <= j}}

EchoesOf(sample) == {sample.echoes[n] : n \in 1..Len(sample.echoes)}

\* C15: apply_reverb returns as many samples as it was given for every length
\* and delay; sample j is the input's sample j plus one echo for each tap
\* whose delay is at most j, read from inside the array, and no echo at all
\* when a delay is as long as the array.
C15_ReverbTaps ==
    effect.fx = "reverb" =>
        LET N == effect.args.N
            d == effect.args.delay_samples
        IN  /\ effect.exc = "none"
            /\ Len(effect.out) = N
            /\ \A j \in 0..(N - 1) :
                   /\ effect.out[j + 1].dry = j
                   /\ Len(effect.out[j + 1].echoes) = Cardinality(ClaimedEchoes(j, d))
                   /\ EchoesOf(effect.out[j + 1]) = ClaimedEchoes(j, d)
                   /\ \A e \in EchoesOf(effect.out[j + 1]) : e.src \in 0..(N - 1)
            /\ d >= N => \A j \in 0..(N - 1) : effect.out[j + 1].echoes = <<>>

\* ------------------------------------------------------------------------
\* C16
\* ------------------------------------------------------------------------

\* the keys of key_mapping under the comment "Next octave", and the keys of
\* the same pitch classes in the rows above them
ExtendedKeys == {",", ".", "/", "l", ";"}

BaseKeys == {"z", "x", "c", "s", "d"}

\* the last key event started the thread of a note
NoteStarted == handled.handler = "play_note" /\ handled.req # 0

\* C16: an extended key plays its note one octave above current_octave and a
\* base key plays it at current_octave, whatever was played before (stated
\* below the top octave, where the octave above exists).
C16_OctaveByKey ==
    (NoteStarted /\ current_octave < 8) =>
        /\ handled.key \in ExtendedKeys => call[handled.req].octave = current_octave + 1
        /\ handled.key \in BaseKeys => call[handled.req].octave = current_octave

\* ------------------------------------------------------------------------
\* C17
\* ------------------------------------------------------------------------

\* the requests PianoKeyboard.play_note handed to SoundPlayer.play_note
HandedNotes == {r \in Issued : call[r].via = "keyboard" /\ call[r].kind = "note"}

\* a step that is a key event
KeyEvent == handled'.tick # handled.tick

\* neither the octave computed for the note nor the one below it is valid
NeitherValid(note) ==
    /\ ~is_valid_note(note, get_octave_for_note(note))
    /\ ~is_valid_note(note, get_octave_for_note(note) - 1)

\* C17: every note handed to SoundPlayer.play_note is valid at the octave
\* handed with it, and a key whose note is valid at neither the computed
\* octave nor the one below starts no thread and leaves _last_played_note
\* as it was.
C17_HandedNotesValid ==
    /\ [](\A r \in HandedNotes : is_valid_note(call[r].notes[1], call[r].octave))
    /\ [][(KeyEvent /\ handled'.handler = "play_note"
               /\ NeitherValid(key_mapping[handled'.key]))
            => /\ nreq' = nreq
               /\ pc' = pc
               /\ last_played_note' = last_played_note]_vars

\* a note was handed on, and the last key was given up
C17_Witness ==
    /\ HandedNotes # {}
    /\ handled.handler = "play_note"
    /\ handled.req = 0
    /\ NeitherValid(key_mapping[handled.key])

\* ------------------------------------------------------------------------
\* C18
\* ------------------------------------------------------------------------

SessionInRange ==
    /\ 0 <= current_octave /\ current_octave <= 8
    /\ current_sound \in DOMAIN AVAILABLE_SOUNDS
    /\ Cardinality(DOMAIN AVAILABLE_SOUNDS) = 9
    /\ current_chord \in DOMAIN chords
    /\ Cardinality(DOMAIN chords) = 4

\* the event is an up at the top octave, a down at the bottom one, or a
\* sound key that sound_keys does not map
LeavesRangeOrUnmapped ==
    \/ handled'.key = "up" /\ current_octave + 1 > 8
    \/ handled'.key = "down" /\ current_octave - 1 < 0
    \/ handled'.handler \in {"change_sound", "none"} /\ handled'.key \notin DOMAIN sound_keys

\* C18: the octave, the sound and the chord type stay within their ranges,
\* and an up or down that would leave the range, or an unmapped sound key,
\* changes nothing of the session.
C18_SessionStaysInRange ==
    /\ []SessionInRange
    /\ [][(KeyEvent /\ LeavesRangeOrUnmapped)
            => UNCHANGED <<engine_vars, wait_vars, generated, keyboard_vars>>]_vars

\* change_sound was called with an unmapped key in a session moved off its
\* first settings, at the top octave
C18_Witness ==
    /\ handled.handler = "change_sound"
    /\ handled.key \notin DOMAIN sound_keys
    /\ current_octave = 8
    /\ current_sound = "synth"
    /\ current_chord = "sus4"

====
